---- MODULE Spec2Model ----
\* Verification model of the attestation dashboard (src/main.py): the data
\* helpers prepare_final and filtered_table, the per-tab aggregation of main,
\* and the login / selection state machine that main runs on every rerun.
EXTENDS Integers, Sequences, FiniteSets, TLC

VARIABLES
    \* ---- one interactive session (st.session_state, files, cache, page) ----
    ss_keys,          \* keys present in st.session_state
    authenticated,    \* st.session_state.authenticated (FALSE while the key is absent)
    selected_id,      \* st.session_state.selected_id (0 while the key is absent)
    rerun_requested,  \* st.rerun() was called and the rerun has not started yet
    final_file,       \* DATA_DIR/final.csv: [exists, columns, rows]
    detail_files,     \* the other *.csv of DATA_DIR in path order: sequence of [stem, df]
    cache,            \* st.cache_data store of load_csv for final.csv: [loaded, columns, rows]
    ui,               \* elements the last run of main put on the page, in order
    event,            \* widget input of the run of main that was the last step, if it was one
    \* ---- prepare_final applied to a roster table ----
    p_df,             \* argument table
    p_out,            \* [called, arg (argument), res (result of the call)]
    \* ---- filtered_table applied to a detail table ----
    f_df,
    f_out,            \* [called, employee_id, arg (argument), res (result of the call)]
    \* ---- one detail tab of main (body of the loop over detail files) ----
    t_df,
    t_out             \* [called, stem, selected_id, fr (filter result), raised, els (elements)]

session_vars == <<ss_keys, authenticated, selected_id, rerun_requested, final_file, detail_files, cache, ui, event>>
prepare_vars == <<p_df, p_out>>
filter_vars == <<f_df, f_out>>
tab_vars == <<t_df, t_out>>
vars == <<session_vars, prepare_vars, filter_vars, tab_vars>>

-----------------------------------------------------------------------------
\* Bounds of the model.

\* Largest number of rows of a table (roster or detail).
MaxRows == 3
\* Largest number of rows of final.csv in the session machine.
MaxRoster == 2

-----------------------------------------------------------------------------
\* Cell values of a pandas table.  A cell is missing (NaN / None), a number
\* n/d in lowest terms (d = 1 for an integral value), or a text given as its
\* characters.  Numbers are kept below ten decimal digits.

Abs(x) == IF x < 0 THEN -x ELSE x

RECURSIVE GCD(_, _)
GCD(a, b) == IF b = 0 THEN a ELSE GCD(b, a % b)

NULL == [t |-> "null", n |-> 0, d |-> 1, s |-> <<>>]
\* n/d with the common factor g taken out.
Reduced(n, d, g) ==
    [t |-> "num", n |-> (IF n < 0 THEN -(Abs(n) \div g) ELSE n \div g), d |-> d \div g, s |-> <<>>]
Num(n, d) == Reduced(n, d, GCD(Abs(n), d))
Whole(n) == Num(n, 1)
Txt(s) == [t |-> "text", n |-> 0, d |-> 1, s |-> s]

notna(c) == c.t # "null"

Digits == {"0", "1", "2", "3", "4", "5", "6", "7", "8", "9"}
DigitVal(ch) ==
    CASE ch = "0" -> 0 [] ch = "1" -> 1 [] ch = "2" -> 2 [] ch = "3" -> 3
      [] ch = "4" -> 4 [] ch = "5" -> 5 [] ch = "6" -> 6 [] ch = "7" -> 7
      [] ch = "8" -> 8 [] ch = "9" -> 9
SignChars == {"+", "-"}
ExponentChars == {"e", "E"}
\* The characters a text of the model is written with: no blank, no
\* underscore and not the letters of "nan", "inf" and "infinity".
TextChars == Digits \cup SignChars \cup ExponentChars \cup {".", "a", "b", "A", "B", "P", "X"}

AllDigits(s) == \A i \in 1..Len(s) : s[i] \in Digits

RECURSIVE IntOf(_)
IntOf(s) == IF s = <<>> THEN 0 ELSE IntOf(SubSeq(s, 1, Len(s) - 1)) * 10 + DigitVal(s[Len(s)])

RECURSIVE Pow10(_)
Pow10(k) == IF k = 0 THEN 1 ELSE 10 * Pow10(k - 1)

\* Position of the first character of s that is in chars, Len(s) + 1 when
\* there is none; the text before and after a position.
FirstIn(s, chars) ==
    IF \E i \in 1..Len(s) : s[i] \in chars
    THEN CHOOSE i \in 1..Len(s) : s[i] \in chars /\ \A j \in 1..(i - 1) : s[j] \notin chars
    ELSE Len(s) + 1
Before(s, i) == SubSeq(s, 1, i - 1)
After(s, i) == SubSeq(s, i + 1, Len(s))

\* A text with an optional sign in front: the sign, the rest.
Negative(s) == Len(s) > 0 /\ s[1] = "-"
Unsigned(s) == IF Len(s) > 0 /\ s[1] \in SignChars THEN Tail(s) ELSE s

\* [sign] digits, the texts int() reads, and the integer read.
IsIntegerText(s) == Len(Unsigned(s)) > 0 /\ AllDigits(Unsigned(s))
SignedInt(s) == IF Negative(s) THEN -IntOf(Unsigned(s)) ELSE IntOf(Unsigned(s))

\* The parts of a text read as a decimal number,
\*   [sign] (digits ["." [digits]] | "." digits) [("e" | "E") [sign] digits].
HasExponent(s) == \E i \in 1..Len(s) : s[i] \in ExponentChars
Mantissa(s) == Before(Unsigned(s), FirstIn(Unsigned(s), ExponentChars))
Exponent(s) == After(Unsigned(s), FirstIn(Unsigned(s), ExponentChars))
WholeDigits(s) == Before(Mantissa(s), FirstIn(Mantissa(s), {"."}))
FracDigits(s) == After(Mantissa(s), FirstIn(Mantissa(s), {"."}))
IsNumberText(s) ==
    /\ AllDigits(WholeDigits(s)) /\ AllDigits(FracDigits(s))
    /\ Len(WholeDigits(s)) + Len(FracDigits(s)) > 0
    /\ HasExponent(s) => IsIntegerText(Exponent(s))

\* The number m * 10^x.
Scaled(m, x) ==
    IF m = 0 THEN Whole(0)
    ELSE IF x >= 0 THEN Whole(m * Pow10(x))
    ELSE Num(m, Pow10(-x))

\* Numeric reading of a text (pd.to_numeric on a text, float() of a text):
\* the number the text denotes, NULL when it denotes none.
ParseText(s) ==
    IF ~IsNumberText(s) THEN NULL
    ELSE Scaled((IF Negative(s) THEN -1 ELSE 1) * IntOf(WholeDigits(s) \o FracDigits(s)),
                (IF HasExponent(s) THEN SignedInt(Exponent(s)) ELSE 0) - Len(FracDigits(s)))

\* int() of a text; NULL stands for ValueError.
IntOfText(s) == IF IsIntegerText(s) THEN Whole(SignedInt(s)) ELSE NULL

\* pd.to_numeric(column, errors="coerce"), cell by cell.
to_numeric(c) == IF c.t = "text" THEN ParseText(c.s) ELSE c

-----------------------------------------------------------------------------
\* Tables: [columns |-> set of column names, rows |-> sequence of rows], a row
\* being a function from the columns to cells.

RECURSIVE SelectRows(_, _)
SelectRows(rows, keep) ==
    IF rows = <<>> THEN <<>>
    ELSE LET rest == SelectRows(Tail(rows), [i \in 1..(Len(rows) - 1) |-> keep[i + 1]])
         IN  IF keep[1] THEN <<Head(rows)>> \o rest ELSE rest

SetCell(row, col, c) == [row EXCEPT ![col] = c]

\* Result of a call: raised = "" and the returned table, or the exception
\* raised and no table.
Returned(df) == [raised |-> "", df |-> df]
Raised(exc) == [raised |-> exc, df |-> [columns |-> {}, rows |-> <<>>]]

\* ---- prepare_final ------------------------------------------------------
\* The integer part of a number, as int() of a float takes it (toward zero).
Trunc(c) == IF c.n < 0 THEN -(Abs(c.n) \div c.d) ELSE c.n \div c.d

\* .astype(int) on a cell of the id column left after the missing ids are
\* dropped: a number is truncated toward zero, a text is read by int(); NULL
\* stands for the ValueError of a text that int() does not read.
astype_int(c) == IF c.t = "text" THEN IntOfText(c.s) ELSE Whole(Trunc(c))

\* Line 20 takes a copy and lines 21-22 work on copies: the table the caller
\* passed holds after the call, returned or raised, what it held before.
prepare_final_arg(df) == df

\* Lines 19-23: KeyError without the id column; the rows with an id are kept
\* in order and their ids cast; one id that int() does not read fails the call.
prepare_final(df) ==
    IF "id_employee" \notin df.columns THEN Raised("KeyError") ELSE
    LET kept == SelectRows(df.rows, [i \in 1..Len(df.rows) |-> notna(df.rows[i]["id_employee"])])
        cast == [i \in 1..Len(kept) |-> astype_int(kept[i]["id_employee"])]
    IN  IF \E i \in 1..Len(kept) : cast[i] = NULL
        THEN Raised("ValueError")
        ELSE Returned([columns |-> df.columns,
                       rows |-> [i \in 1..Len(kept) |-> SetCell(kept[i], "id_employee", cast[i])]])

\* ---- filtered_table -----------------------------------------------------
\* filtered_table without the guard of line 48: the column lookup fails.
filtered_table_no_guard(df, employee_id) ==
    IF "id_employee" \notin df.columns
    THEN Raised("KeyError")
    ELSE LET numeric == [i \in 1..Len(df.rows) |-> to_numeric(df.rows[i]["id_employee"])]
         IN  IF \E i \in 1..Len(df.rows) : numeric[i].t = "num" /\ numeric[i].d # 1
             THEN Raised("TypeError")
             ELSE Returned([columns |-> df.columns,
                            rows |-> SelectRows([i \in 1..Len(df.rows) |->
                                                   SetCell(df.rows[i], "id_employee", numeric[i])],
                                [i \in 1..Len(df.rows) |-> numeric[i] = Whole(employee_id)])])

filtered_table(df, employee_id) ==
    IF "id_employee" \notin df.columns
    THEN Returned([columns |-> df.columns, rows |-> <<>>])
    ELSE LET numeric == [i \in 1..Len(df.rows) |-> to_numeric(df.rows[i]["id_employee"])]
         IN  \* .astype("Int64") refuses a column holding a non-integral number
             IF \E i \in 1..Len(df.rows) : numeric[i].t = "num" /\ numeric[i].d # 1
             THEN Raised("TypeError")
             ELSE LET working == [i \in 1..Len(df.rows) |->
                                    SetCell(df.rows[i], "id_employee", numeric[i])]
                  IN  Returned([columns |-> df.columns,
                                rows |-> SelectRows(working,
                                    [i \in 1..Len(working) |->
                                        working[i]["id_employee"] = Whole(employee_id)])])

-----------------------------------------------------------------------------
\* One detail tab: the body of the loop over detail_files in main.

\* Page elements: [el |-> the st.* call, key |-> its text, val |-> its value].
\* The Russian texts of the page are written in Latin transliteration.
El(el, key, val) == [el |-> el, key |-> key, val |-> val]

\* ---- file stems and str.lower() ----
\* A stem is given as its characters (ASCII letters, digits, underscore).
LowerChar(ch) ==
    CASE ch = "A" -> "a" [] ch = "B" -> "b" [] ch = "C" -> "c" [] ch = "D" -> "d"
      [] ch = "E" -> "e" [] ch = "F" -> "f" [] ch = "G" -> "g" [] ch = "H" -> "h"
      [] ch = "I" -> "i" [] ch = "J" -> "j" [] ch = "K" -> "k" [] ch = "L" -> "l"
      [] ch = "M" -> "m" [] ch = "N" -> "n" [] ch = "O" -> "o" [] ch = "P" -> "p"
      [] ch = "Q" -> "q" [] ch = "R" -> "r" [] ch = "S" -> "s" [] ch = "T" -> "t"
      [] ch = "U" -> "u" [] ch = "V" -> "v" [] ch = "W" -> "w" [] ch = "X" -> "x"
      [] ch = "Y" -> "y" [] ch = "Z" -> "z"
      [] OTHER -> ch
lower(stem) == [i \in 1..Len(stem) |-> LowerChar(stem[i])]

DISCIPLINE ==
    << "d", "e", "t", "a", "i", "l", "_", "d", "i", "s", "c", "i", "p", "l", "i", "n", "e",
       "_", "a", "p", "r", "_", "d", "e", "c", "2", "0", "2", "5" >>
ERRORS ==
    << "d", "e", "t", "a", "i", "l", "_", "e", "r", "r", "o", "r", "s", "_", "a", "p", "r",
       "_", "d", "e", "c", "2", "0", "2", "5" >>
RANKS ==
    << "d", "e", "t", "a", "i", "l", "_", "r", "a", "n", "k", "s", "_", "a", "p", "r", "_",
       "d", "e", "c", "2", "0", "2", "5" >>
PERFORMANCE ==
    << "p", "e", "r", "f", "o", "r", "m", "a", "n", "c", "e", "_", "m", "e", "t", "r", "i",
       "c", "s", "_", "a", "p", "r", "_", "d", "e", "c", "2", "0", "2", "5" >>
KnownStems == {DISCIPLINE, ERRORS, RANKS, PERFORMANCE}

\* ---- Series.fillna, value_counts ----
NOT_SPECIFIED == Txt(<<"Ne ukazano">>)
fillna(c, value) == IF notna(c) THEN c ELSE value

Column(df, col) == [i \in 1..Len(df.rows) |-> df.rows[i][col]]

CountOf(cells, v) == Cardinality({i \in 1..Len(cells) : cells[i] = v})
FirstOf(cells, v) == CHOOSE i \in 1..Len(cells) : cells[i] = v /\ \A j \in 1..(i - 1) : cells[j] # v

RECURSIVE RankValues(_, _)
RankValues(cells, remaining) ==
    IF remaining = {} THEN <<>>
    ELSE LET best == CHOOSE v \in remaining : \A u \in remaining \ {v} :
                        \/ CountOf(cells, v) > CountOf(cells, u)
                        \/ CountOf(cells, v) = CountOf(cells, u) /\ FirstOf(cells, v) < FirstOf(cells, u)
         IN  <<[value |-> best, count |-> CountOf(cells, best)]>> \o RankValues(cells, remaining \ {best})

RECURSIVE AppearanceOrder(_, _)
AppearanceOrder(cells, seen) ==
    IF cells = <<>> THEN <<>>
    ELSE IF Head(cells) \in seen THEN AppearanceOrder(Tail(cells), seen)
    ELSE <<Head(cells)>> \o AppearanceOrder(Tail(cells), seen \cup {Head(cells)})

\* value_counts(sort=False): the counts in order of first appearance.
value_counts_unsorted(cells) ==
    LET vs == AppearanceOrder(cells, {})
    IN  [i \in 1..Len(vs) |-> [value |-> vs[i], count |-> CountOf(cells, vs[i])]]

\* Series.value_counts(): one entry per distinct value, larger counts first,
\* equal counts in order of first appearance.
value_counts(cells) == RankValues(cells, {cells[i] : i \in 1..Len(cells)})

\* ---- Series.sum ----
Present(cells) == SelectRows(cells, [i \in 1..Len(cells) |-> notna(cells[i])])

RECURSIVE IsPow2(_)
IsPow2(q) == q = 1 \/ (q % 2 = 0 /\ IsPow2(q \div 2))

RECURSIVE AddAll(_)
\* The sum of number cells as a number.
AddAll(cells) ==
    IF cells = <<>> THEN Whole(0)
    ELSE LET rest == AddAll(Tail(cells))
             c == Head(cells)
         IN  Num(c.n * rest.d + rest.n * c.d, c.d * rest.d)

RECURSIVE Concat(_)
Concat(cells) == IF cells = <<>> THEN <<>> ELSE Head(cells).s \o Concat(Tail(cells))

\* Result of an aggregation: the exception raised, or a value; exact tells
\* that the floating-point additions behind the value are exact (every addend
\* a multiple of a power of 1/2, or a single addend), so that the value is the
\* number computed and not only the number it is rounded from.
Computed(v, exact) == [raised |-> "", value |-> v, exact |-> exact]
Failed(exc) == [raised |-> exc, value |-> NULL, exact |-> TRUE]

\* Series.sum(): missing values are skipped and an empty column sums to 0;
\* in a column of texts the texts are concatenated, and a text cannot be added
\* to a number or to the 0 that stands for a missing value.
series_sum(cells) ==
    LET present == Present(cells)
    IN  IF \E i \in 1..Len(cells) : cells[i].t = "text"
        THEN IF \A i \in 1..Len(cells) : cells[i].t = "text"
             THEN Computed(Txt(Concat(cells)), TRUE)
             ELSE Failed("TypeError")
        ELSE Computed(AddAll(present),
                      Len(present) <= 1 \/ \A i \in 1..Len(present) : IsPow2(present[i].d))

\* ---- "{x:.2f}" ----
RECURSIVE PowMod2(_, _)
\* 2^k modulo q.
PowMod2(k, q) == IF k = 0 THEN 1 % q ELSE (2 * PowMod2(k - 1, q)) % q

RECURSIVE Log2Floor(_, _)
\* The largest e with 2^e <= p/q, for p, q > 0.
Log2Floor(p, q) ==
    IF p >= 2 * q THEN Log2Floor(p, 2 * q) + 1
    ELSE IF p < q THEN Log2Floor(2 * p, q) - 1
    ELSE 0

\* The float nearest to p/q (53 significant bits) is greater than p/q.
FloatAbove(p, q) ==
    LET k == 52 - Log2Floor(p, q)
        rem == ((p % q) * PowMod2(k, q)) % q
    IN  2 * rem > q

\* What an aggregate line shows after its label: the "net dannyh" text, the
\* text "nan" of a missing number, or a number with two decimals given as its
\* sign and its hundredths.
NoData == [kind |-> "net dannyh", neg |-> FALSE, hundredths |-> 0]
NaN2f == [kind |-> "nan", neg |-> FALSE, hundredths |-> 0]
Value2f(neg, h) == [kind |-> "value", neg |-> neg, hundredths |-> h]
\* A value whose third decimal is an exact 5 while the float formatted is
\* the result of inexact additions: the line shows h or h + 1 hundredths.
Either2f(neg, h) == [kind |-> "either", neg |-> neg, hundredths |-> h]

\* The hundredths shown for p/q >= 0 in lowest terms, h and r being the
\* quotient and the remainder of 100 * p by q: the decimal nearest to the
\* float nearest to p/q, a float exactly halfway between two decimals (p/q
\* itself, when q is a power of 2) going to the even one.
Nearest2f(p, q, h, r) ==
    IF 2 * r < q THEN h
    ELSE IF 2 * r > q THEN h + 1
    ELSE IF IsPow2(q) THEN (IF h % 2 = 0 THEN h ELSE h + 1)
    ELSE IF FloatAbove(p, q) THEN h + 1
    ELSE h

\* "{x:.2f}" of the float x nearest to the number cell c; negzero tells that
\* a zero is the negative zero.
Round2f(c, negzero) ==
    Value2f(c.n < 0 \/ (c.n = 0 /\ negzero),
            Nearest2f(Abs(c.n), c.d, (100 * Abs(c.n)) \div c.d, (100 * Abs(c.n)) % c.d))
Format2f(n, d, negzero) == Round2f(Num(n, d), negzero)

\* Third decimal of the number cell c an exact 5.
HalfwayDecimal(c) == 2 * ((100 * Abs(c.n)) % c.d) = c.d

\* f"{total / count:.2f}" for the sum total of count > 0 numbers.
MeanOf(total, count, mean) ==
    IF ~total.exact /\ HalfwayDecimal(mean)
    THEN Computed(Either2f(mean.n < 0, (100 * Abs(mean.n)) \div mean.d), FALSE)
    ELSE Computed(Round2f(mean, FALSE), TRUE)

\* f"{Series.mean():.2f}": missing values are skipped, nan when nothing is
\* left; the mean of a column holding a text is a TypeError.
mean2f(cells) ==
    IF \E i \in 1..Len(cells) : cells[i].t = "text" THEN Failed("TypeError")
    ELSE IF \A i \in 1..Len(cells) : cells[i].t = "null" THEN Computed(NaN2f, TRUE)
    ELSE MeanOf(series_sum(cells), Len(Present(cells)),
                Num(AddAll(Present(cells)).n, AddAll(Present(cells)).d * Len(Present(cells))))

\* f"{float(cell):.2f}": float() of a text reads it as a number or raises
\* ValueError; a missing value shows as nan.
ParsedFloat2f(c, x) ==
    IF x.t = "null" THEN Failed("ValueError")
    ELSE Computed(Round2f(x, c.t = "text" /\ Negative(c.s)), TRUE)
float2f(c) == IF c.t = "null" THEN Computed(NaN2f, TRUE) ELSE ParsedFloat2f(c, to_numeric(c))

\* ---- the body of a tab ----
errors_breakdown(filtered, col, title) ==
    IF col \in filtered.columns
    THEN << El("markdown", title, 0),
            El("dataframe", col,
               value_counts([i \in 1..Len(filtered.rows) |-> fillna(filtered.rows[i][col], NOT_SPECIFIED)])) >>
    ELSE <<>>

\* st.write of an aggregate: nothing is drawn when computing it raised.
WriteLine(key, res, val) == [raised |-> res.raised, els |-> << El("write", key, val) >>]
SumLine(key, total) == WriteLine(key, total, [value |-> total.value, exact |-> total.exact])
ValueLine(key, res) == WriteLine(key, res, res.value)

\* The aggregate line of lines 141-190 by stem: raised, or the elements.
aggregate(stem_lower, filtered) ==
    CASE stem_lower = DISCIPLINE ->
           SumLine("Itogo kosyakov (summa discipline_points)",
                   IF "discipline_points" \in filtered.columns
                   THEN series_sum(Column(filtered, "discipline_points"))
                   ELSE Computed(Whole(0), TRUE))
      [] stem_lower = ERRORS ->
           [raised |-> "",
            els |-> << El("write", "Itogo oshibok (kol-vo zapisey)", Len(filtered.rows)) >> \o
                    ( IF filtered.rows # <<>>
                      THEN errors_breakdown(filtered, "area", "Oshibki po uchastkam") \o
                           errors_breakdown(filtered, "product", "Oshibki po produktam")
                      ELSE <<>> ) \o
                    << El("dataframe", "filtered", filtered) >>]
      [] stem_lower = RANKS ->
           ValueLine("Sredniy razryad (srednee mark)",
                     IF "mark" \in filtered.columns /\ filtered.rows # <<>>
                     THEN mean2f(Column(filtered, "mark"))
                     ELSE Computed(NoData, TRUE))
      [] stem_lower = PERFORMANCE ->
           ValueLine("Itogovyy ball",
                     IF "performance_points" \in filtered.columns /\ filtered.rows # <<>>
                     THEN float2f(filtered.rows[1]["performance_points"])
                     ELSE Computed(NoData, TRUE))
      [] OTHER -> [raised |-> "", els |-> <<>>]

\* Lines 139-192 of main for one tab, given the filtered table: the
\* elements drawn and the exception that ended the run, if any.
AfterAggregate(agg, stem_lower, filtered, sel) ==
    IF agg.raised # ""
    THEN [raised |-> agg.raised,
          els |-> << El("caption", "Filtr: id_employee", sel), El("exception", agg.raised, 0) >>]
    ELSE [raised |-> "",
          els |-> << El("caption", "Filtr: id_employee", sel) >> \o agg.els \o
                  ( IF stem_lower # ERRORS
                    THEN << El("dataframe", "filtered", filtered) >> ELSE <<>> )]
tab_elements(stem_lower, filtered, sel) ==
    AfterAggregate(aggregate(stem_lower, filtered), stem_lower, filtered, sel)

\* Lines 137-192: load, filter, render; an exception ends the script run
\* with the exception shown on the page.
AfterFilter(fr, stem, sel) ==
    IF fr.raised # ""
    THEN [fr |-> fr, raised |-> fr.raised, els |-> << El("exception", fr.raised, 0) >>]
    ELSE [fr |-> fr] @@ tab_elements(lower(stem), fr.df, sel)
tab_body(stem, df, sel) == AfterFilter(filtered_table(df, sel), stem, sel)

-----------------------------------------------------------------------------
\* Inputs of the model.

EmployeeIds == {1, 2}

\* Texts the id column of a detail file can hold: integers, integral and
\* non-integral decimals, a signed number, a number with exponent, no number.
IdTexts == { <<"1">>, <<"2", ".", "0", "0">>, <<"1", ".", "5", "0">>, <<"-", "1">>,
             <<"2", "e", "0">>, <<"a">> }
\* Id cells of a detail table: missing, integers, a fraction, texts.
DetailIds == {NULL, Whole(1), Whole(2), Num(3, 2)} \cup {Txt(s) : s \in IdTexts}
\* Texts the id column of the roster can hold: an integer, a decimal, no number.
RosterTexts == { <<"1">>, <<"1", ".", "5", "0">>, <<"a">> }
\* Id cells of the roster: missing, a number (a column with missing values
\* is read as floats), among them fractions of either sign, or a text (a
\* column with one cell that is no number is read as texts).
RosterIds == {NULL, Whole(1), Whole(2), Num(3, 2), Num(-3, 2)} \cup {Txt(s) : s \in RosterTexts}
Names == {Txt(<<"a">>), Txt(<<"b">>)}

\* File stems of the detail files: the four known names, spellings of them
\* in other case, and unknown names.
UpperChar(ch) ==
    CASE ch = "a" -> "A" [] ch = "b" -> "B" [] ch = "c" -> "C" [] ch = "d" -> "D"
      [] ch = "e" -> "E" [] ch = "f" -> "F" [] ch = "g" -> "G" [] ch = "h" -> "H"
      [] ch = "i" -> "I" [] ch = "j" -> "J" [] ch = "k" -> "K" [] ch = "l" -> "L"
      [] ch = "m" -> "M" [] ch = "n" -> "N" [] ch = "o" -> "O" [] ch = "p" -> "P"
      [] ch = "q" -> "Q" [] ch = "r" -> "R" [] ch = "s" -> "S" [] ch = "t" -> "T"
      [] ch = "u" -> "U" [] ch = "v" -> "V" [] ch = "w" -> "W" [] ch = "x" -> "X"
      [] ch = "y" -> "Y" [] ch = "z" -> "Z"
      [] OTHER -> ch
upper(stem) == [i \in 1..Len(stem) |-> UpperChar(stem[i])]
\* The first letter and every letter after an underscore in upper case.
Capitalized(stem) ==
    [i \in 1..Len(stem) |-> IF i = 1 \/ stem[i - 1] = "_" THEN UpperChar(stem[i]) ELSE stem[i]]
NOTES == << "n", "o", "t", "e", "s" >>
Stems == KnownStems \cup {upper(s) : s \in KnownStems} \cup {Capitalized(s) : s \in KnownStems}
         \cup {NOTES, Capitalized(NOTES)}

ColumnCells(col, ids) ==
    CASE col = "id_employee" -> ids
      [] col = "fio_employee" -> Names
      [] col = "tag" -> {Whole(7), Whole(8)}
      [] col = "discipline_points" -> {NULL, Whole(1), Num(3, 2)}
      [] col = "area" -> {NULL, Txt(<<"A">>), Txt(<<"B">>)}
      [] col = "product" -> {Txt(<<"P">>)}
      [] col = "mark" -> {NULL, Whole(3), Num(7, 2)}
      [] col = "performance_points" -> {NULL, Num(11, 2), Num(25, 8)}

RECURSIVE RowsOver(_, _)
\* All rows over the columns cols, the id column drawn from ids.
RowsOver(cols, ids) ==
    IF cols = {} THEN {<<>>}
    ELSE LET c == CHOOSE x \in cols : TRUE
         IN  {(c :> v) @@ r : v \in ColumnCells(c, ids), r \in RowsOver(cols \ {c}, ids)}

EmptyTable(cols) == [columns |-> cols, rows |-> <<>>]
AppendRow(df, r) == [columns |-> df.columns, rows |-> Append(df.rows, r)]

\* Values of the variables of a part of the model that a specification leaves alone.
NoSession ==
    /\ ss_keys = {} /\ authenticated = FALSE /\ selected_id = 0 /\ rerun_requested = FALSE
    /\ final_file = [exists |-> FALSE, columns |-> {}, rows |-> <<>>] /\ detail_files = <<>>
    /\ cache = [loaded |-> FALSE, columns |-> {}, rows |-> <<>>]
    /\ ui = <<>> /\ event = [kind |-> "none"]
NoPrepare == p_df = EmptyTable({}) /\ p_out = [called |-> FALSE]
NoFilter == f_df = EmptyTable({}) /\ f_out = [called |-> FALSE]
NoTab == t_df = EmptyTable({}) /\ t_out = [called |-> FALSE]

-----------------------------------------------------------------------------
\* prepare_final applied to every roster table of up to MaxRows rows, with
\* and without the id column.

RosterColumns == {"id_employee", "fio_employee"}
PrepareShapes == {RosterColumns, {"fio_employee"}}

InitPrepare ==
    /\ p_df \in {EmptyTable(cols) : cols \in PrepareShapes} /\ p_out = [called |-> FALSE]
    /\ NoSession /\ NoFilter /\ NoTab

PrepareAddRow ==
    /\ ~p_out.called /\ Len(p_df.rows) < MaxRows
    /\ \E r \in RowsOver(p_df.columns, RosterIds) : p_df' = AppendRow(p_df, r)
    /\ UNCHANGED <<p_out, session_vars, filter_vars, tab_vars>>

PrepareCall ==
    /\ ~p_out.called
    /\ p_out' = [called |-> TRUE, arg |-> p_df, res |-> prepare_final(p_df)]
    /\ p_df' = prepare_final_arg(p_df)
    /\ UNCHANGED <<session_vars, filter_vars, tab_vars>>

NextPrepare == PrepareAddRow \/ PrepareCall
SpecPrepare == InitPrepare /\ [][NextPrepare]_vars

-----------------------------------------------------------------------------
\* filtered_table applied to every detail table of up to MaxRows rows, with
\* and without the id column.

FilterShapes == {{"id_employee", "tag"}, {"tag"}}

InitFilter ==
    /\ \E cols \in FilterShapes : f_df = EmptyTable(cols)
    /\ f_out = [called |-> FALSE]
    /\ NoSession /\ NoPrepare /\ NoTab

FilterAddRow ==
    /\ ~f_out.called /\ Len(f_df.rows) < MaxRows
    /\ \E r \in RowsOver(f_df.columns, DetailIds) : f_df' = AppendRow(f_df, r)
    /\ UNCHANGED <<f_out, session_vars, prepare_vars, tab_vars>>

\* working = df.copy(): the caller's table is not touched.
FilterCall ==
    /\ ~f_out.called
    /\ \E id \in EmployeeIds :
         f_out' = [called |-> TRUE, employee_id |-> id, arg |-> f_df, res |-> filtered_table(f_df, id)]
    /\ f_df' = f_df
    /\ UNCHANGED <<session_vars, prepare_vars, tab_vars>>

NextFilter == FilterAddRow \/ FilterCall
SpecFilter == InitFilter /\ [][NextFilter]_vars

-----------------------------------------------------------------------------
\* One detail tab rendered for every stem and every detail table of up to
\* MaxRows rows of the shapes below.

TabIds == {Whole(1), Whole(2), Num(3, 2)}
TabShapes == { {"id_employee"}, {"id_employee", "discipline_points"}, {"discipline_points"},
               {"id_employee", "area", "product"}, {"id_employee", "area"}, {"area"},
               {"id_employee", "mark"}, {"mark"},
               {"id_employee", "performance_points"}, {"performance_points"} }

InitTab ==
    /\ \E cols \in TabShapes : t_df = EmptyTable(cols)
    /\ t_out = [called |-> FALSE]
    /\ NoSession /\ NoPrepare /\ NoFilter

TabAddRow ==
    /\ ~t_out.called /\ Len(t_df.rows) < MaxRows
    /\ \E r \in RowsOver(t_df.columns, TabIds) : t_df' = AppendRow(t_df, r)
    /\ UNCHANGED <<t_out, session_vars, prepare_vars, filter_vars>>

TabRender ==
    /\ ~t_out.called
    /\ \E stem \in Stems, sel \in EmployeeIds :
         LET body == tab_body(stem, t_df, sel)
         IN  t_out' = [called |-> TRUE, stem |-> stem, selected_id |-> sel,
                       fr |-> body.fr, raised |-> body.raised, els |-> body.els]
    /\ t_df' = t_df
    /\ UNCHANGED <<session_vars, prepare_vars, filter_vars>>

NextTab == TabAddRow \/ TabRender
SpecTab == InitTab /\ [][NextTab]_vars

-----------------------------------------------------------------------------
\* The session machine: main() run once per interaction.

LOGIN_USER == "admin"
LOGIN_PASS == "secret"
\* What the user can type into the two fields of the login form.
Usernames == {"admin", "guest", ""}
Passwords == {"secret", "admin", ""}

\* ---- sort_values("fio_employee") ----
CharRank(ch) == CASE ch = "a" -> 1 [] ch = "b" -> 2

RECURSIVE StrLess(_, _)
\* s1 < s2 as Python strings.
StrLess(s1, s2) ==
    IF s2 = <<>> THEN FALSE
    ELSE IF s1 = <<>> THEN TRUE
    ELSE IF CharRank(Head(s1)) # CharRank(Head(s2)) THEN CharRank(Head(s1)) < CharRank(Head(s2))
    ELSE StrLess(Tail(s1), Tail(s2))

NameLess(r1, r2) == StrLess(r1["fio_employee"].s, r2["fio_employee"].s)

RECURSIVE InsertByName(_, _)
\* x put after every row whose name is not greater (a stable sort).
InsertByName(sorted, x) ==
    IF sorted = <<>> THEN <<x>>
    ELSE IF NameLess(x, Head(sorted)) THEN <<x>> \o sorted
    ELSE <<Head(sorted)>> \o InsertByName(Tail(sorted), x)

RECURSIVE SortRows(_)
SortRows(rows) ==
    IF rows = <<>> THEN <<>> ELSE InsertByName(SortRows(SubSeq(rows, 1, Len(rows) - 1)), rows[Len(rows)])

sort_values_unsorted(df) == df
sort_values(df) == [columns |-> df.columns, rows |-> SortRows(df.rows)]

\* ---- employee_label and the options dict ----
\* The label text "{name} ({id})" is given as the pair it is formatted from.
employee_label(row) == [fio |-> row["fio_employee"].s, id |-> row["id_employee"].n]

RECURSIVE DictItems(_, _)
\* Items of {employee_label(row): row["id_employee"] for row in rows}: one item
\* per distinct label, in order of first insertion, holding the last value.
DictItems(rows, seen) ==
    IF rows = <<>> THEN <<>>
    ELSE LET k == employee_label(Head(rows))
         IN  IF k \in seen THEN DictItems(Tail(rows), seen)
             ELSE <<[label |-> k, value |-> Head(rows)["id_employee"].n]>> \o DictItems(Tail(rows), seen \cup {k})

options_of(employees) == DictItems(employees.rows, {})

\* list.index(x): position of the first equal item, 0 standing for ValueError.
index_of(values, x) ==
    IF \E i \in 1..Len(values) : values[i] = x
    THEN CHOOSE i \in 1..Len(values) : values[i] = x /\ \A j \in 1..(i - 1) : values[j] # x
    ELSE 0

\* ---- load_csv under st.cache_data ----
load_csv(c, file) ==
    IF c.loaded THEN c ELSE [loaded |-> TRUE, columns |-> file.columns, rows |-> file.rows]

\* ---- the detail directory ----
\* tab_labels.get(path.stem, path.stem): the stem is looked up as it is
\* spelled; a label is given as one word, a stem as its characters.
tab_labels(stem) ==
    CASE stem = DISCIPLINE -> <<"Distsiplina">>
      [] stem = ERRORS -> <<"Oshibki">>
      [] stem = RANKS -> <<"Razryady">>
      [] stem = PERFORMANCE -> <<"Pokazateli">>
      [] OTHER -> stem

RECURSIVE render_tabs(_, _)
\* The loop over the tabs: an exception in one tab ends the run.
render_next(body, files, sel) ==
    IF body.raised # "" THEN body.els ELSE body.els \o render_tabs(Tail(files), sel)
render_tabs(files, sel) ==
    IF files = <<>> THEN <<>>
    ELSE render_next(tab_body(Head(files).stem, Head(files).df, sel), files, sel)

\* ---- render_selected_card ----
\* row.get(col): the cell, None (here NULL) when the row has no such column.
get(row, col) == IF col \in DOMAIN row THEN row[col] ELSE NULL

render_selected_card(row) ==
    LET total == get(row, "7")
        score == get(row, "Unnamed: 10")
    IN  << El("subheader", "Sotrudnik", 0),
           El("markdown", "fio_employee", row["fio_employee"].s),
           El("caption", "ID", row["id_employee"].n) >> \o
        ( IF "Uchastok" \in DOMAIN row /\ notna(row["Uchastok"])
          THEN << El("write", "Uchastok", row["Uchastok"]) >> ELSE <<>> ) \o
        ( IF notna(total) THEN << El("write", "Summa", total) >> ELSE <<>> ) \o
        ( IF notna(score) THEN << El("write", "Summa / 10", score) >> ELSE <<>> )

\* ---- main ----
\* What one run of main leaves behind: the session state, the cache and the page.
Ran(keys, auth, sel, rerun, c, els) ==
    [keys |-> keys, auth |-> auth, sel |-> sel, rerun |-> rerun, cache |-> c, ui |-> els]

\* Lines 60-61: the flag is created as False when the session has none yet.
authenticated_reset(keys, auth) == FALSE
authenticated_of(keys, auth) == IF "authenticated" \in keys THEN auth ELSE FALSE

\* Line 70.
credentials_match_user_only(username, password) == username = LOGIN_USER
credentials_match(username, password) == username = LOGIN_USER /\ password = LOGIN_PASS

\* The widget of the page the user acted on, if the last run drew one.
PageSelectboxes == {ui[i].val : i \in {j \in DOMAIN ui : ui[j].el = "selectbox"}}
PageHasForm == \E i \in DOMAIN ui : ui[i].el = "form"

\* st.selectbox without a key: the user's pick when the widget (its options
\* and index) is the one the user acted on, its default item otherwise.
selectbox(ev, labels, index) ==
    IF ev.kind = "select" /\ [options |-> labels, index |-> index] \in PageSelectboxes
    THEN ev.label
    ELSE labels[index]

\* Lines 63-75.
login_page(ev, keys, sel, c, els0) ==
    LET form == els0 \o << El("subheader", "Vhod", 0), El("form", "login_form", 0) >>
    IN  IF ev.kind = "submit"
        THEN IF credentials_match(ev.username, ev.password)
             THEN Ran(keys, TRUE, sel, TRUE, c, form)
             ELSE Ran(keys, FALSE, sel, FALSE, c,
                      form \o << El("error", "Nevernyy login ili parol.", 0) >>)
        ELSE Ran(keys, FALSE, sel, FALSE, c, form)

\* Lines 102-192: the selected row, the card, the summary and the tabs.
main_selected(keys2, sel2, c1, page0, selected_row) ==
    IF selected_row = <<>>
    THEN Ran(keys2, TRUE, sel2, FALSE, c1,
             page0 \o << El("warning", "Vybrannyy sotrudnik ne nayden.", 0) >>)
    ELSE IF detail_files = <<>>
    THEN Ran(keys2, TRUE, sel2, FALSE, c1,
             page0 \o render_selected_card(selected_row[1]) \o
             << El("subheader", "Itogovaya otsenka", 0),
                El("dataframe", "summary_vertical", selected_row),
                El("subheader", "Detalizatsiya po vybrannomu sotrudniku", 0),
                El("info", "Dopolnitelnye CSV fayly ne naydeny.", 0) >>)
    ELSE Ran(keys2, TRUE, sel2, FALSE, c1,
             page0 \o render_selected_card(selected_row[1]) \o
             << El("subheader", "Itogovaya otsenka", 0),
                El("dataframe", "summary_vertical", selected_row),
                El("subheader", "Detalizatsiya po vybrannomu sotrudniku", 0),
                El("tabs", "", [i \in 1..Len(detail_files) |-> tab_labels(detail_files[i].stem)]) >>
             \o render_tabs(detail_files, sel2))

\* Lines 100-103: the id of the selected label is stored and its rows of
\* the roster are taken.
main_store(keys2, sel2, c1, page0, final_df) ==
    main_selected(keys2, sel2, c1, page0,
                  SelectRows(final_df.rows,
                      [i \in 1..Len(final_df.rows) |-> final_df.rows[i]["id_employee"] = Whole(sel2)]))

\* Lines 95-99: the selector, drawn at the index of the stored id; index 0
\* is the ValueError of list.index.
main_selectbox(ev, keys2, sel1, c1, els0, final_df, labels, values, index) ==
    IF index = 0
    THEN Ran(keys2, TRUE, sel1, FALSE, c1, els0 \o << El("exception", "ValueError", 0) >>)
    ELSE main_store(keys2, values[index_of(labels, selectbox(ev, labels, index))], c1,
                    els0 \o << El("selectbox", "Vyberite sotrudnika", [options |-> labels, index |-> index]) >>,
                    final_df)

\* Lines 92-93: the selection is created as the first option's id.
main_selection(ev, keys, sel1, c1, els0, final_df, labels, values) ==
    main_selectbox(ev, keys \cup {"selected_id"}, sel1, c1, els0, final_df, labels, values,
                   index_of(values, sel1))

\* Lines 89-90: the options of the selector, in name order.
main_options(ev, keys, sel, c1, els0, final_df, options) ==
    main_selection(ev, keys, IF "selected_id" \in keys THEN sel ELSE options[1].value, c1, els0, final_df,
                   [i \in 1..Len(options) |-> options[i].label],
                   [i \in 1..Len(options) |-> options[i].value])

\* Lines 83-87: an exception of prepare_final ends the run; an empty roster
\* ends it with a warning.
main_roster(ev, keys, sel, c1, els0, prepared) ==
    IF prepared.raised # ""
    THEN Ran(keys, TRUE, sel, FALSE, c1, els0 \o << El("exception", prepared.raised, 0) >>)
    ELSE IF prepared.df.rows = <<>>
    THEN Ran(keys, TRUE, sel, FALSE, c1,
             els0 \o << El("warning", "Net dannyh sotrudnikov v final.csv.", 0) >>)
    ELSE main_options(ev, keys, sel, c1, els0, prepared.df, options_of(sort_values(prepared.df)))

\* Lines 82-83.
main_load(ev, keys, sel, c1, els0) ==
    main_roster(ev, keys, sel, c1, els0, prepare_final([columns |-> c1.columns, rows |-> c1.rows]))

\* Lines 77-192.
dashboard(ev, keys, sel, c, els0) ==
    IF ~final_file.exists
    THEN Ran(keys, TRUE, sel, FALSE, c, els0 \o << El("error", "Fayl final.csv ne nayden.", 0) >>)
    ELSE main_load(ev, keys, sel, load_csv(c, final_file), els0)

\* A run of main that does not return after the login form: the dashboard
\* is drawn below it.
main_below_login(l, d) == Ran(d.keys, l.auth, d.sel, l.rerun, d.cache, d.ui)
main_after_login(ev, l) == main_below_login(l, dashboard(ev, l.keys, l.sel, l.cache, l.ui))
main_no_return(ev) ==
    IF ~authenticated_of(ss_keys, authenticated)
    THEN main_after_login(ev, login_page(ev, ss_keys \cup {"authenticated"}, selected_id, cache,
                                         << El("title", "Panel attestatsii sotrudnikov", 0) >>))
    ELSE dashboard(ev, ss_keys \cup {"authenticated"}, selected_id, cache,
                   << El("title", "Panel attestatsii sotrudnikov", 0) >>)

main(ev) ==
    IF ~authenticated_of(ss_keys, authenticated)
    THEN login_page(ev, ss_keys \cup {"authenticated"}, selected_id, cache,
                    << El("title", "Panel attestatsii sotrudnikov", 0) >>)
    ELSE dashboard(ev, ss_keys \cup {"authenticated"}, selected_id, cache,
                   << El("title", "Panel attestatsii sotrudnikov", 0) >>)

\* The session after a run of main that left r behind.
Left(r, ev) ==
    /\ ss_keys' = r.keys
    /\ authenticated' = r.auth
    /\ selected_id' = r.sel
    /\ rerun_requested' = r.rerun
    /\ cache' = r.cache
    /\ ui' = r.ui
    /\ event' = ev
    /\ UNCHANGED <<final_file, detail_files, prepare_vars, filter_vars, tab_vars>>

\* One script run triggered by the widget input ev.
Run(ev) == Left(main(ev), ev)

\* ---- the files of the session machine ----
\* Columns of final.csv: the id and the name, alone or with the columns the
\* summary card reads.
CardColumns == {"Uchastok", "7", "Unnamed: 10"}
RosterShapes == {RosterColumns, RosterColumns \cup CardColumns}

Employee(id, fio) == ("id_employee" :> id) @@ ("fio_employee" :> Txt(fio))
Card(area, total, score) == ("Uchastok" :> area) @@ ("7" :> total) @@ ("Unnamed: 10" :> score)

\* Rows final.csv is written from: two employees whose name order is the
\* reverse of their id order, a second name for id 1, and a row without id;
\* with card columns, an employee with all three card values, one with none,
\* and one with the score only.
SessionRows(cols) ==
    IF cols = RosterColumns
    THEN { Employee(Whole(1), <<"b">>), Employee(Whole(2), <<"a">>),
           Employee(Whole(1), <<"a">>), Employee(NULL, <<"a">>) }
    ELSE { Employee(Whole(1), <<"b">>) @@ Card(Txt(<<"X">>), Whole(40), Whole(4)),
           Employee(Whole(2), <<"a">>) @@ Card(NULL, NULL, NULL),
           Employee(Whole(1), <<"a">>) @@ Card(NULL, NULL, Num(9, 2)),
           Employee(NULL, <<"a">>) @@ Card(Txt(<<"X">>), Whole(40), Whole(4)) }

Row2(a, va, b, vb) == (a :> va) @@ (b :> vb)
DetailTable(cols, rows) == [columns |-> cols, rows |-> rows]

\* Contents of the data directory besides final.csv.
DetailDirs ==
    { <<>>,
      << [stem |-> ERRORS,
          df |-> DetailTable({"id_employee", "area"},
                   << Row2("id_employee", Whole(1), "area", Txt(<<"A">>)),
                      Row2("id_employee", Txt(<<"2">>), "area", NULL),
                      Row2("id_employee", Whole(1), "area", Txt(<<"B">>)) >>)] >>,
      << [stem |-> DISCIPLINE,
          df |-> DetailTable({"id_employee", "discipline_points"},
                   << Row2("id_employee", Whole(1), "discipline_points", Whole(2)),
                      Row2("id_employee", Num(3, 2), "discipline_points", Whole(1)) >>)],
         [stem |-> NOTES,
          df |-> DetailTable({"tag"}, << ("tag" :> Whole(7)) >>)] >>,
      << [stem |-> Capitalized(ERRORS),
          df |-> DetailTable({"id_employee"}, << ("id_employee" :> Whole(2)) >>)],
         [stem |-> RANKS,
          df |-> DetailTable({"id_employee", "mark"},
                   << Row2("id_employee", Whole(1), "mark", Whole(3)),
                      Row2("id_employee", Whole(1), "mark", Whole(4)) >>)] >> }

Init ==
    /\ ss_keys = {} /\ authenticated = FALSE /\ selected_id = 0 /\ rerun_requested = FALSE
    /\ final_file \in [exists : BOOLEAN, columns : RosterShapes, rows : {<<>>}]
    /\ detail_files \in DetailDirs
    /\ cache = [loaded |-> FALSE, columns |-> {}, rows |-> <<>>]
    /\ ui = <<>> /\ event = [kind |-> "none"]
    /\ NoPrepare /\ NoFilter /\ NoTab

\* ---- user actions ----
\* The page is opened or reloaded by the script itself (st.rerun) or by the
\* browser without widget input.
Rerun ==
    /\ Run([kind |-> "rerun"])

Submit ==
    /\ ~rerun_requested /\ PageHasForm
    /\ \E u \in Usernames, pw \in Passwords :
         Run([kind |-> "submit", username |-> u, password |-> pw])

Select ==
    /\ ~rerun_requested
    /\ \E w \in PageSelectboxes : \E i \in DOMAIN w.options :
         Run([kind |-> "select", label |-> w.options[i]])

\* ---- the environment ----
\* A row is written to final.csv (the file is created when missing).  A write
\* under a loaded cache cannot be seen by any run before the cache is cleared,
\* so writes are taken when no table is cached; RestoreFinal puts a removed
\* file back while the cache is loaded.
WriteFinal ==
    /\ ~cache.loaded /\ Len(final_file.rows) < MaxRoster
    /\ \E r \in SessionRows(final_file.columns) :
         final_file' = [exists |-> TRUE, columns |-> final_file.columns, rows |-> Append(final_file.rows, r)]
    /\ event' = [kind |-> "none"]
    /\ UNCHANGED <<ss_keys, authenticated, selected_id, rerun_requested, detail_files, cache, ui,
                   prepare_vars, filter_vars, tab_vars>>

RemoveFinal ==
    /\ final_file.exists
    /\ final_file' = [exists |-> FALSE, columns |-> final_file.columns, rows |-> <<>>]
    /\ event' = [kind |-> "none"]
    /\ UNCHANGED <<ss_keys, authenticated, selected_id, rerun_requested, detail_files, cache, ui,
                   prepare_vars, filter_vars, tab_vars>>

RestoreFinal ==
    /\ ~final_file.exists /\ cache.loaded
    /\ final_file' = [exists |-> TRUE, columns |-> cache.columns, rows |-> cache.rows]
    /\ event' = [kind |-> "none"]
    /\ UNCHANGED <<ss_keys, authenticated, selected_id, rerun_requested, detail_files, cache, ui,
                   prepare_vars, filter_vars, tab_vars>>

\* "Clear cache" of the app menu empties the st.cache_data store.
ClearCache ==
    /\ cache.loaded
    /\ cache' = [loaded |-> FALSE, columns |-> {}, rows |-> <<>>]
    /\ event' = [kind |-> "none"]
    /\ UNCHANGED <<ss_keys, authenticated, selected_id, rerun_requested, final_file, detail_files, ui,
                   prepare_vars, filter_vars, tab_vars>>

Next == Rerun \/ Submit \/ Select \/ WriteFinal \/ RemoveFinal \/ RestoreFinal \/ ClearCache
Spec == Init /\ [][Next]_vars

-----------------------------------------------------------------------------
\* Properties of prepare_final, filtered_table and the detail tab.

\* Strictly increasing maps from 1..n into 1..m.
Increasing(n, m) == {g \in [1..n -> 1..m] : \A i, j \in 1..n : i < j => g[i] < g[j]}

\* C6: for every roster table (a table with the id column) prepare_final
\* returns a table (it raises nothing) that has no missing id and only
\* integer ids, and whose rows are, in order, exactly the rows of the argument
\* that have an id: every other column as it was and the id the same number;
\* so it has no more rows than the argument; and the argument itself is left
\* as it was.
C6_PrepareFinal ==
    (p_out.called /\ "id_employee" \in p_out.arg.columns) =>
        LET arg == p_out.arg.rows
            out == p_out.res.df.rows
            withId == {i \in 1..Len(arg) : arg[i]["id_employee"] # NULL}
        IN  /\ p_df = p_out.arg
            /\ p_out.res.raised = ""
            /\ p_out.res.df.columns = p_out.arg.columns
            /\ \A i \in 1..Len(out) :
                 /\ out[i]["id_employee"].t = "num"
                 /\ out[i]["id_employee"].d = 1
            /\ Len(out) <= Len(arg)
            /\ Len(out) = Cardinality(withId)
            /\ \E g \in Increasing(Len(out), Len(arg)) :
                 /\ {g[i] : i \in 1..Len(out)} = withId
                 /\ \A i \in 1..Len(out) :
                      /\ \A c \in p_out.arg.columns \ {"id_employee"} : out[i][c] = arg[g[i]][c]
                      /\ out[i]["id_employee"] = to_numeric(arg[g[i]]["id_employee"])

\* The rows of df whose id reads as a number equal to id, in order.
MatchingRows(df, id) ==
    SelectRows(df.rows, [i \in 1..Len(df.rows) |-> to_numeric(df.rows[i]["id_employee"]) = Whole(id)])

\* C4: for a table with an id column, filtered_table returns the rows whose
\* id reads as a number equal to the employee id, in their order, with the
\* columns of the argument.
C4_FilterReturnsMatches ==
    (f_out.called /\ "id_employee" \in f_out.arg.columns) =>
        LET want == MatchingRows(f_out.arg, f_out.employee_id)
            got == f_out.res.df.rows
        IN  /\ f_out.res.raised = ""
            /\ f_out.res.df.columns = f_out.arg.columns
            /\ Len(got) = Len(want)
            /\ \A i \in 1..Len(got) :
                 /\ got[i]["tag"] = want[i]["tag"]
                 /\ got[i]["id_employee"] = Whole(f_out.employee_id)

RECURSIVE SumCounts(_)
SumCounts(b) == IF b = <<>> THEN 0 ELSE Head(b).count + SumCounts(Tail(b))

\* ---- elements of a rendered tab ----
TabEls(el, key) == {i \in DOMAIN t_out.els : t_out.els[i].el = el /\ t_out.els[i].key = key}
TabElsOf(el) == {i \in DOMAIN t_out.els : t_out.els[i].el = el}
\* The stem of the tab is name up to the case of its letters.
StemIs(name) == upper(t_out.stem) = upper(name)
AggregateKey(name) ==
    CASE name = DISCIPLINE -> "Itogo kosyakov (summa discipline_points)"
      [] name = ERRORS -> "Itogo oshibok (kol-vo zapisey)"
      [] name = RANKS -> "Sredniy razryad (srednee mark)"
      [] name = PERFORMANCE -> "Itogovyy ball"

\* C5: for a table without id column the filter returns no rows and the
\* columns of the argument without raising, and the tab renders: the
\* aggregate line of a known stem with its fallback value (0, or no data),
\* no breakdown, and the empty filtered table once.
C5_NoIdColumn ==
    (t_out.called /\ "id_employee" \notin t_df.columns) =>
        /\ t_out.fr.raised = ""
        /\ t_out.fr.df = [columns |-> t_df.columns, rows |-> <<>>]
        /\ TabElsOf("exception") = {}
        /\ Cardinality(TabEls("dataframe", "filtered")) = 1
        /\ \A i \in TabEls("dataframe", "filtered") :
             t_out.els[i].val = [columns |-> t_df.columns, rows |-> <<>>]
        /\ TabEls("dataframe", "area") = {} /\ TabEls("dataframe", "product") = {}
        /\ \A name \in KnownStems : StemIs(name) =>
             /\ Cardinality(TabElsOf("write")) = 1
             /\ \A i \in TabElsOf("write") :
                  /\ t_out.els[i].key = AggregateKey(name)
                  /\ t_out.els[i].val = CASE name = DISCIPLINE -> [value |-> Whole(0), exact |-> TRUE]
                                           [] name = ERRORS -> 0
                                           [] OTHER -> NoData

\* The ranks tab of a table that has marks but no id column.
C5_Witness ==
    /\ t_out.called /\ t_out.stem = RANKS
    /\ t_df.columns = {"mark"} /\ Len(t_df.rows) = 2
    /\ t_df.rows[1]["mark"] = Whole(3)
    /\ Cardinality(TabElsOf("write")) = 1

\* C9: every tab shows the aggregate line of its lower-cased stem when the
\* stem is one of the four known names and no aggregate line otherwise, and
\* shows the filtered rows of the selected employee exactly once.
C9_Dispatch ==
    t_out.called =>
        /\ \A name \in KnownStems : StemIs(name) =>
             /\ Cardinality(TabElsOf("write")) = 1
             /\ \A i \in TabElsOf("write") : t_out.els[i].key = AggregateKey(name)
        /\ (\A name \in KnownStems : ~StemIs(name)) =>
             TabElsOf("write") = {} /\ TabElsOf("markdown") = {}
        /\ Cardinality(TabEls("dataframe", "filtered")) = 1
        /\ \A i \in TabEls("dataframe", "filtered") :
             /\ t_out.els[i].val.columns = t_df.columns
             /\ \A k \in 1..Len(t_out.els[i].val.rows) :
                  t_out.els[i].val.rows[k]["id_employee"] = Whole(t_out.selected_id)

\* C10: in the errors tab the count shown is the number of filtered rows;
\* with filtered rows and an area column there is one area breakdown, its
\* counts are those of the areas (missing areas under "Ne ukazano"), sum to
\* the count shown and do not increase down the list; without filtered rows
\* there is no breakdown.
C10_ErrorsAggregate ==
    (t_out.called /\ StemIs(ERRORS) /\ t_out.fr.raised = "") =>
        LET rows == t_out.fr.df.rows
            n == Len(rows)
            areaOf(k) == IF rows[k]["area"] = NULL THEN NOT_SPECIFIED ELSE rows[k]["area"]
        IN  /\ Cardinality(TabElsOf("write")) = 1
            /\ \A i \in TabElsOf("write") : t_out.els[i].val = n
            /\ (n > 0 /\ "area" \in t_out.fr.df.columns) =>
                 /\ Cardinality(TabEls("dataframe", "area")) = 1
                 /\ \A i \in TabEls("dataframe", "area") :
                      LET b == t_out.els[i].val
                      IN  /\ SumCounts(b) = n
                          /\ \A k \in 1..(Len(b) - 1) : b[k].count >= b[k + 1].count
                          /\ \A k, m \in 1..Len(b) : b[k].value = b[m].value => k = m
                          /\ \A k \in 1..Len(b) :
                               b[k].count = Cardinality({r \in 1..n : areaOf(r) = b[k].value})
                          /\ \A r \in 1..n : \E k \in 1..Len(b) : b[k].value = areaOf(r)
            /\ n = 0 => TabEls("dataframe", "area") = {} /\ TabEls("dataframe", "product") = {}

\* Three errors of the employee: one in area A first, then two without area.
C10_Witness ==
    /\ t_out.called /\ StemIs(ERRORS) /\ t_out.fr.raised = ""
    /\ Len(t_out.fr.df.rows) = 3
    /\ "area" \in t_out.fr.df.columns
    /\ t_out.fr.df.rows[1]["area"] = Txt(<<"A">>)
    /\ \E i \in TabEls("dataframe", "area") :
         /\ Len(t_out.els[i].val) = 2
         /\ t_out.els[i].val[1] = [value |-> NOT_SPECIFIED, count |-> 2]

-----------------------------------------------------------------------------
\* Properties of the session machine.

\* A step that runs main records its widget input; a step of the environment
\* records none.
RunStep == event'.kind # "none"
SubmitStep == event'.kind = "submit"
SelectStep == event'.kind = "select"

PageEls(page, el) == {i \in DOMAIN page : page[i].el = el}
PageElsKey(page, el, key) == {i \in DOMAIN page : page[i].el = el /\ page[i].key = key}

\* C1: a login submitted in an unauthenticated session authenticates it when
\* both the username and the password equal the configured ones; any other
\* pair leaves it unauthenticated and the run shows an error message.
C1_LoginOutcome ==
    [][ (~authenticated /\ SubmitStep) =>
          IF event'.username = LOGIN_USER /\ event'.password = LOGIN_PASS
          THEN authenticated'
          ELSE ~authenticated' /\ PageEls(ui', "error") # {} ]_vars

\* A submission with the right username and a wrong password was refused.
C1_Witness ==
    /\ event.kind = "submit"
    /\ event.username = LOGIN_USER /\ event.password # LOGIN_PASS
    /\ ~authenticated
    /\ PageEls(ui, "error") # {}

\* C2: the authentication flag starts false and, once true, is true after
\* every later step.
C2_AuthMonotonic == ~authenticated /\ [][authenticated => authenticated']_vars

\* An authenticated session with a stored selection whose last run found
\* final.csv missing.
C2_Witness ==
    /\ authenticated /\ "selected_id" \in ss_keys
    /\ PageElsKey(ui, "error", "Fayl final.csv ne nayden.") # {}

\* C3: a run that starts unauthenticated puts only the login form (and the
\* login error) on the page, loads no roster, and neither creates nor
\* changes the selection.
C3_UnauthenticatedRun ==
    [][ (~authenticated /\ RunStep) =>
          /\ cache' = cache
          /\ selected_id' = selected_id
          /\ ("selected_id" \in ss_keys') = ("selected_id" \in ss_keys)
          /\ \A i \in DOMAIN ui' :
               \/ ui'[i].el \in {"title", "form", "error"}
               \/ ui'[i].el = "subheader" /\ ui'[i].key = "Vhod" ]_vars

\* The run of a correct login with a roster on disk: the flag is set, the
\* rerun is requested, nothing is loaded.
C3_Witness ==
    /\ authenticated /\ rerun_requested
    /\ event.kind = "submit"
    /\ final_file.exists /\ final_file.rows # <<>>
    /\ ~cache.loaded /\ "selected_id" \notin ss_keys
    /\ PageEls(ui, "form") # {}

\* The roster a run works on: the rows of the cached table, read from
\* final.csv when nothing is cached, that have an id.
RosterRows(c, file) ==
    LET rows == IF c.loaded THEN c.rows ELSE file.rows
    IN  SelectRows(rows, [i \in 1..Len(rows) |-> rows[i]["id_employee"] # NULL])
RosterIdsOf(c, file) ==
    LET rows == RosterRows(c, file) IN {rows[i]["id_employee"].n : i \in 1..Len(rows)}

\* C7: an authenticated run whose stored selected id is no id of the roster
\* ends with a warning, without card and tabs, and without unhandled error.
C7_StaleSelectionWarning ==
    [][ ( /\ authenticated /\ "selected_id" \in ss_keys
          /\ final_file.exists
          /\ RosterRows(cache, final_file) # <<>>
          /\ selected_id \notin RosterIdsOf(cache, final_file)
          /\ RunStep ) =>
          /\ PageEls(ui', "warning") # {}
          /\ PageEls(ui', "exception") = {}
          /\ PageEls(ui', "markdown") = {} /\ PageEls(ui', "tabs") = {} ]_vars

\* C8: the selection is created by the first authenticated run that has a
\* non-empty roster, as the id of the first employee in name order; later it
\* changes only to the id of the employee picked in the selector; after a
\* run that drew the selector it is an id of the roster.
C8_Selection ==
    [][ LET roster == RosterRows(cache, final_file)
            created == "selected_id" \notin ss_keys /\ "selected_id" \in ss_keys'
        IN  /\ "selected_id" \in ss_keys => "selected_id" \in ss_keys'
            /\ created <=> ( /\ authenticated /\ final_file.exists
                             /\ "selected_id" \notin ss_keys /\ roster # <<>>
                             /\ RunStep )
            /\ created =>
                 \E i \in 1..Len(roster) :
                    /\ selected_id' = roster[i]["id_employee"].n
                    /\ \A j \in 1..Len(roster) : ~NameLess(roster[j], roster[i])
            /\ ("selected_id" \in ss_keys /\ selected_id' # selected_id) =>
                 /\ SelectStep
                 /\ event'.label.id = selected_id'
            /\ (PageEls(ui', "selectbox") # {} /\ RunStep) =>
                 /\ "selected_id" \in ss_keys'
                 /\ selected_id' \in RosterIdsOf(cache', final_file') ]_vars

\* The user picked employee 1 from a roster whose first employee in name
\* order, the initial selection, is employee 2.
C8_Witness ==
    /\ event.kind = "select" /\ event.label.id = 1
    /\ selected_id = 1 /\ "selected_id" \in ss_keys
    /\ cache.loaded /\ Len(cache.rows) = 2
    /\ cache.rows[1]["id_employee"] = Whole(1) /\ cache.rows[1]["fio_employee"] = Txt(<<"b">>)
    /\ cache.rows[2]["id_employee"] = Whole(2) /\ cache.rows[2]["fio_employee"] = Txt(<<"a">>)
    /\ PageEls(ui, "markdown") # {}

====
